---- MODULE Spec2Model ----
(***************************************************************************)
(* Warp-CLI (src/warp.py): a curses dashboard for a Core Lightning node.   *)
(*                                                                         *)
(* Three threads share one LightningNode and one LightningCLIUI object,    *)
(* with no lock:                                                           *)
(*   - the main thread runs LightningCLIUI.run (draw_interface, getch,     *)
(*     execute_command and the modal popups);                              *)
(*   - a daemon thread runs monitor_node_status;                           *)
(*   - a daemon thread runs monitor_wallet_status.                         *)
(*                                                                         *)
(* One action of the model is one step of one thread that touches at most  *)
(* one attribute another thread also touches; the thread-local statements  *)
(* around it belong to the same action.  lightning-cli (the Gateway) is    *)
(* outside the program: what the subprocess does is an input of the step   *)
(* that runs it.                                                           *)
(*                                                                         *)
(* Python values whose type the code inspects (isinstance, truthiness) are *)
(* records [ty, v]; a str is a TLA+ string, the input line is a sequence   *)
(* of one-character strings.                                               *)
(***************************************************************************)
EXTENDS Integers, Sequences, FiniteSets, TLC

(***************************************************************************)
(* Bounds of the model.                                                    *)
(***************************************************************************)
\* block heights the node may report: 1..MaxHeight
MaxHeight == 1
\* peer counts the node may report: 0..MaxPeers
MaxPeers == 1
\* length of the channel list the node may report: 0..MaxChannels
MaxChannels == 1

(***************************************************************************)
(* Python values.                                                          *)
(***************************************************************************)
PyNone == [ty |-> "NoneType"]
PyInt(n) == [ty |-> "int", v |-> n]
PyStr(s) == [ty |-> "str", v |-> s]
PyList(l) == [ty |-> "list", v |-> l]
\* a dict is a function from its keys to its values
PyDict(d) == [ty |-> "dict", v |-> d]

isinstance(x, t) == x.ty = t

\* dict.get(key, default)
DictGet(x, key, default) == IF key \in DOMAIN x.v THEN x.v[key] ELSE default

\* the truth value of a Python value (None, 0, '' and empty containers are false)
Truthy(x) ==
    CASE x.ty = "NoneType" -> FALSE
      [] x.ty = "int" -> x.v # 0
      [] x.ty = "str" -> x.v # ""
      [] x.ty = "list" -> x.v # <<>>
      [] x.ty = "dict" -> DOMAIN x.v # {}

(***************************************************************************)
(* LightningNode.run_command.  What the lightning-cli subprocess did is    *)
(* the outcome o: it printed JSON (o.value is the parsed value), printed   *)
(* nothing, exited non-zero (o.value is its stderr), printed text that is  *)
(* not JSON, could not be found, or failed otherwise (o.value is str(e)).  *)
(***************************************************************************)
Outcome(kind, value) == [kind |-> kind, value |-> value]

run_command(command, o) ==
    CASE o.kind = "json" -> o.value
      [] o.kind = "empty" -> PyStr("Error: Empty response from command.")
      [] o.kind = "exit" -> PyStr("Error executing " \o command \o ": " \o o.value)
      [] o.kind = "badjson" -> PyStr("Error: Unable to parse JSON response.")
      [] o.kind = "notfound" ->
            PyStr("Error: lightning-cli not found. Is the Lightning node running?")
      [] o.kind = "other" -> PyStr("Unexpected error: " \o o.value)

\* the ways a call fails (a Failure of the Gateway)
FailureOutcomes ==
    { Outcome("empty", ""), Outcome("exit", "connection refused"),
      Outcome("badjson", ""), Outcome("notfound", ""),
      Outcome("other", "Permission denied") }

(***************************************************************************)
(* What lightning-cli may answer.                                          *)
(***************************************************************************)
\* getinfo: a dict with "blockheight" and "num_peers", a dict without them
GetinfoDicts ==
    { PyDict([blockheight |-> PyInt(h), num_peers |-> PyInt(p)]) :
        h \in 1..MaxHeight, p \in 0..MaxPeers }
    \cup { PyDict(<<>>) }

\* one channel of listfunds, as the node reports it
ChannelDicts ==
    { PyDict([short_channel_id |-> PyStr("1x1x1"), our_amount_msat |-> PyInt(1500)]) }

RECURSIVE SeqsUpTo(_, _)
\* the sequences over S of length 0..n
SeqsUpTo(S, n) ==
    IF n = 0 THEN { <<>> }
    ELSE LET shorter == SeqsUpTo(S, n - 1)
         IN shorter \cup { Append(q, x) : q \in shorter, x \in S }

ChannelLists == { PyList(q) : q \in SeqsUpTo(ChannelDicts, MaxChannels) }

\* listfunds as the pollers see it: with "outputs" and "channels", with
\* "outputs" alone, or with neither
ListfundsDicts ==
    { PyDict([outputs |-> PyList(<<>>), channels |-> c]) : c \in ChannelLists }
    \cup { PyDict([outputs |-> PyList(<<>>)]), PyDict(<<>>) }

(***************************************************************************)
(* LightningNode.get_balances, on the value run_command("listfunds")       *)
(* returned.  An exception raised inside the try block is the record       *)
(* [exc |-> TRUE, v |-> str(e)].                                           *)
(***************************************************************************)
Raise(msg) == [exc |-> TRUE, v |-> msg]
Value(x) == [exc |-> FALSE, v |-> x]

RECURSIVE SumField(_, _, _)
\* sum(item[key] for item in items), started from acc
SumField(items, key, acc) ==
    IF items = <<>> THEN Value(acc)
    ELSE LET item == Head(items) IN
         IF item.ty # "dict"
         THEN Raise("'" \o item.ty \o "' object is not subscriptable")
         ELSE IF key \notin DOMAIN item.v
         THEN Raise("'" \o key \o "'")
         ELSE IF item.v[key].ty # "int"
         THEN Raise("unsupported operand type(s) for +: 'int' and '"
                    \o item.v[key].ty \o "'")
         ELSE SumField(Tail(items), key, acc + item.v[key].v)

\* sum(...) // 1000 over funds.get(field, [])
BalanceOf(funds, field, key) ==
    LET items == DictGet(funds, field, PyList(<<>>)) IN
    IF items.ty # "list"
    THEN Raise("'" \o items.ty \o "' object is not iterable")
    ELSE LET total == SumField(items.v, key, 0) IN
         IF total.exc THEN total ELSE Value(PyInt(total.v \div 1000))

\* C5, mutant of get_balances: the Failure is reported as the on-chain
\* balance alone, next to a lightning balance of 0
get_balances_one_error(funds) ==
    IF isinstance(funds, "str") THEN <<funds, PyInt(0)>>
    ELSE <<PyInt(0), PyInt(0)>>

get_balances(funds) ==
    IF isinstance(funds, "str") THEN <<funds, funds>>
    ELSE IF ~isinstance(funds, "dict")
    THEN <<PyStr("Error fetching balances"),
           PyStr("'" \o funds.ty \o "' object has no attribute 'get'")>>
    ELSE LET onchain_balance == BalanceOf(funds, "outputs", "amount_msat")
             lightning_balance == BalanceOf(funds, "channels", "our_amount_msat")
         IN IF onchain_balance.exc
            THEN <<PyStr("Error fetching balances"), PyStr(onchain_balance.v)>>
            ELSE IF lightning_balance.exc
            THEN <<PyStr("Error fetching balances"), PyStr(lightning_balance.v)>>
            ELSE <<onchain_balance.v, lightning_balance.v>>

\* LightningNode.get_block_height
get_block_height(height) == IF Truthy(height) THEN height ELSE PyStr("Unknown")

(***************************************************************************)
(* Text: the input line is a sequence of one-character strings.            *)
(***************************************************************************)
IsSpace(c) == c = " "

RECURSIVE LStrip(_)
LStrip(s) == IF s # <<>> /\ IsSpace(Head(s)) THEN LStrip(Tail(s)) ELSE s

RECURSIVE RStrip(_)
RStrip(s) ==
    IF s # <<>> /\ IsSpace(s[Len(s)]) THEN RStrip(SubSeq(s, 1, Len(s) - 1)) ELSE s

\* str.strip()
\* what str.strip() would be if it removed nothing
StripNothing(s) == s

Strip(s) == RStrip(LStrip(s))

RECURSIVE JoinChars(_)
\* the str a sequence of characters spells
JoinChars(s) == IF s = <<>> THEN "" ELSE Head(s) \o JoinChars(Tail(s))

RECURSIVE SplitFrom(_, _, _)
\* str.split(): the maximal runs of non-space characters
SplitFrom(s, word, acc) ==
    IF s = <<>>
    THEN IF word = <<>> THEN acc ELSE Append(acc, word)
    ELSE IF IsSpace(Head(s))
    THEN SplitFrom(Tail(s), <<>>, IF word = <<>> THEN acc ELSE Append(acc, word))
    ELSE SplitFrom(Tail(s), Append(word, Head(s)), acc)

Split(s) == SplitFrom(s, <<>>, <<>>)

RECURSIVE JoinWithout(_, _)
\* what sep.join(words) would be if it left the separator out
JoinWithout(sep, words) ==
    IF words = <<>> THEN "" ELSE words[1] \o JoinWithout(sep, Tail(words))

RECURSIVE JoinWith(_, _)
\* sep.join(words)
JoinWith(sep, words) ==
    IF words = <<>> THEN ""
    ELSE IF Len(words) = 1 THEN words[1]
    ELSE words[1] \o sep \o JoinWith(sep, Tail(words))

IsPrefix(p, s) == Len(p) <= Len(s) /\ SubSeq(s, 1, Len(p)) = p

(***************************************************************************)
(* State.                                                                  *)
(***************************************************************************)
VARIABLES
    \* LightningNode (NodeState)
    node_active, wallet_active, current_block_height, num_peers, channels,
    \* LightningCLIUI
    command_history, current_command, result_output, cursor_x, show_menu,
    balances_changed,            \* the DirtyFlag
    background_thread_running,   \* the shutdown signal, inverted
    \* main thread: where run() is, why it ended, the frame being drawn, and
    \* execute_command's local `response` while a popup is open
    uiPc, exitCause, frame, response,
    \* the lightning-cli calls (command, params) made so far for the line
    \* submitted last, by execute_command and the popups
    dispatchCalls,
    \* the locals of the popups while one is open: invoice_lines of
    \* pay_invoice_popup; input_buffer, cursor_pos and scroll_offset of
    \* show_bolt12_popup
    invoice_lines, input_buffer, cursor_pos, scroll_offset,
    \* monitor_node_status: where it is, its locals
    nodePc, nodeResult, previous_status, previous_block_height,
    \* monitor_wallet_status: where it is, its locals
    walletPc, walletResult, previous_wallet_status, previous_channels,
    \* history variables: no action of the program reads them
    prevPeers,      \* num_peers at the end of the previous node poll cycle
    seenSnaps,      \* the node snapshots, current at some time since the running
                    \* redraw began to read NodeState, that its frame agrees with
    unseen,         \* poller -> it wrote a changed value no redraw decision followed yet
    stale,          \* poller -> what it did after the running redraw read its fields
    \* one call of LightningNode.get_balances on its own: what lightning-cli
    \* did, and the pair the call returned (<<>> before it returns)
    listfundsOutcome, balancePair,
    \* history of the main loop: the key getch returned last, and the input
    \* line as it was when Enter was pressed last
    lastKey, lastLine,
    \* history of the redraws: show_menu as the last redraw that began found
    \* it, and whether a poller set balances_changed while the popup that is
    \* open, or was closed last with no redraw finished since, was open
    menuDrawn, raisedInDialog,
    \* the lines typed into pay_invoice_popup, as typed, since it opened
    enteredLines

nodeVars == <<node_active, current_block_height, num_peers>>
walletVars == <<wallet_active, channels>>
popupVars == <<invoice_lines, input_buffer, cursor_pos, scroll_offset>>
inputVars == <<command_history, current_command, cursor_x, show_menu, response,
               dispatchCalls, popupVars>>
nodeThreadVars == <<nodePc, nodeResult, previous_status, previous_block_height>>
walletThreadVars == <<walletPc, walletResult, previous_wallet_status, previous_channels>>
progVars == <<nodeVars, walletVars, inputVars, result_output, balances_changed,
              background_thread_running, uiPc, exitCause, frame,
              nodeThreadVars, walletThreadVars>>
histVars == <<prevPeers, seenSnaps, unseen, stale>>
callVars == <<listfundsOutcome, balancePair>>
keyVars == <<lastKey, lastLine>>
loopVars == <<menuDrawn, raisedInDialog, enteredLines>>
vars == <<progVars, histVars, callVars, keyVars, loopVars>>

Pollers == {"node", "wallet"}

\* nothing drawn in a region of the frame
Blank == [ty |-> "blank"]
\* what draw_interface has put into the frame: the output pane, and the three
\* regions that show the node poller's fields
BlankFrame == [output |-> Blank, node_status |-> Blank, peers |-> Blank, height |-> Blank]

\* LightningNode.__init__, LightningCLIUI.__init__ and the first statements of
\* the two monitor threads, which copy the initial NodeState
InitProgram ==
    /\ node_active = FALSE
    /\ wallet_active = FALSE
    /\ current_block_height = PyNone
    /\ num_peers = PyInt(0)
    /\ channels = PyList(<<>>)
    /\ command_history = <<>>
    /\ current_command = <<>>
    /\ result_output = ""
    /\ cursor_x = 0
    /\ show_menu = FALSE
    /\ balances_changed = TRUE
    /\ background_thread_running = TRUE
    /\ uiPc = "draw"
    /\ exitCause = "none"
    /\ frame = BlankFrame
    /\ response = PyNone
    /\ dispatchCalls = <<>>
    /\ invoice_lines = <<>>
    /\ input_buffer = <<>>
    /\ cursor_pos = 0
    /\ scroll_offset = 0
    /\ nodePc = "loop"
    /\ nodeResult = PyNone
    /\ previous_status = FALSE
    /\ previous_block_height = PyNone
    /\ walletPc = "loop"
    /\ walletResult = PyNone
    /\ previous_wallet_status = FALSE
    /\ previous_channels = PyList(<<>>)
    /\ prevPeers = PyInt(0)
    /\ seenSnaps = {}
    /\ unseen = [p \in Pollers |-> FALSE]
    /\ stale = [p \in Pollers |-> "no"]
    /\ lastKey = "none"
    /\ lastLine = <<>>
    /\ menuDrawn = FALSE
    /\ raisedInDialog = FALSE
    /\ enteredLines = <<>>

Init == InitProgram /\ listfundsOutcome = PyNone /\ balancePair = <<>>

(***************************************************************************)
(* monitor_node_status and LightningNode.check_node_status.                *)
(***************************************************************************)
\* C9, mutant of LoopCondition: while True
LoopForever == TRUE

\* while self.background_thread_running
LoopCondition == background_thread_running

\* C8, mutant of NodeActiveOf: any answer of run_command counts as a live node
NodeActiveOfAnyAnswer(result) == ~isinstance(result, "NoneType")

\* self.node_active = isinstance(result, dict)
NodeActiveOf(result) == isinstance(result, "dict")

\* the test that sets balances_changed in monitor_node_status
NodeChanged ==
    \/ node_active # previous_status
    \/ current_block_height # previous_block_height

\* while self.background_thread_running, at the start or after time.sleep(10)
NodeTest ==
    /\ nodePc = "loop"
    /\ nodePc' = IF LoopCondition THEN "call" ELSE "done"
    /\ UNCHANGED <<nodeVars, walletVars, inputVars, result_output, balances_changed,
                   background_thread_running, uiPc, exitCause, frame, nodeResult,
                   previous_status, previous_block_height,
                   walletThreadVars>>

\* result = self.run_command("getinfo"); self.node_active = isinstance(result, dict)
NodeCheck(outcomes) ==
    /\ nodePc = "call"
    /\ \E o \in outcomes :
         LET result == run_command("getinfo", o) IN
         /\ nodeResult' = result
         /\ node_active' = NodeActiveOf(result)
         /\ nodePc' = IF node_active' THEN "w_height" ELSE "cmp"
    /\ UNCHANGED <<current_block_height, num_peers, walletVars, inputVars,
                   result_output, balances_changed, background_thread_running,
                   uiPc, exitCause, frame, previous_status, previous_block_height, walletThreadVars>>

\* self.current_block_height = result.get("blockheight", "Unknown")
NodeWriteHeight ==
    /\ nodePc = "w_height"
    /\ current_block_height' = DictGet(nodeResult, "blockheight", PyStr("Unknown"))
    /\ nodePc' = "w_peers"
    /\ UNCHANGED <<node_active, num_peers, walletVars, inputVars, result_output,
                   balances_changed, background_thread_running, uiPc, exitCause,
                   frame, nodeResult, previous_status, previous_block_height, walletThreadVars>>

\* self.num_peers = result.get("num_peers", 0)
NodeWritePeers ==
    /\ nodePc = "w_peers"
    /\ num_peers' = DictGet(nodeResult, "num_peers", PyInt(0))
    /\ nodePc' = "cmp"
    /\ UNCHANGED <<node_active, current_block_height, walletVars, inputVars,
                   result_output, balances_changed, background_thread_running,
                   uiPc, exitCause, frame, nodeResult, previous_status,
                   previous_block_height, walletThreadVars>>

\* if ... != previous ...: self.balances_changed = True; previous_... = ...;
\* then time.sleep(10) begins
NodeCompare ==
    /\ nodePc = "cmp"
    /\ balances_changed' = IF NodeChanged THEN TRUE ELSE balances_changed
    /\ previous_status' = node_active
    /\ previous_block_height' = current_block_height
    /\ nodeResult' = PyNone
    /\ nodePc' = "loop"
    /\ UNCHANGED <<nodeVars, walletVars, inputVars, result_output,
                   background_thread_running, uiPc, exitCause, frame,
                   walletThreadVars>>

(***************************************************************************)
(* monitor_wallet_status and LightningNode.check_wallet_status.            *)
(***************************************************************************)
\* self.wallet_active = isinstance(result, dict) and "outputs" in result
WalletActiveOf(result) == isinstance(result, "dict") /\ "outputs" \in DOMAIN result.v

\* the test that sets balances_changed in monitor_wallet_status
WalletChanged ==
    \/ wallet_active # previous_wallet_status
    \/ channels # previous_channels

\* while self.background_thread_running, at the start or after time.sleep(10)
WalletTest ==
    /\ walletPc = "loop"
    /\ walletPc' = IF LoopCondition THEN "call" ELSE "done"
    /\ UNCHANGED <<nodeVars, walletVars, inputVars, result_output, balances_changed,
                   background_thread_running, uiPc, exitCause, frame, nodeThreadVars,
                   walletResult, previous_wallet_status, previous_channels>>

\* result = self.run_command("listfunds"); self.wallet_active = ...
WalletCheck(outcomes) ==
    /\ walletPc = "call"
    /\ \E o \in outcomes :
         LET result == run_command("listfunds", o) IN
         /\ walletResult' = result
         /\ wallet_active' = WalletActiveOf(result)
         /\ walletPc' = IF wallet_active' THEN "w_channels" ELSE "cmp"
    /\ UNCHANGED <<nodeVars, channels, inputVars, result_output, balances_changed,
                   background_thread_running, uiPc, exitCause, frame, nodeThreadVars,
                   previous_wallet_status, previous_channels>>

\* self.channels = result.get("channels", [])
WalletWriteChannels ==
    /\ walletPc = "w_channels"
    /\ channels' = DictGet(walletResult, "channels", PyList(<<>>))
    /\ walletPc' = "cmp"
    /\ UNCHANGED <<nodeVars, wallet_active, inputVars, result_output, balances_changed,
                   background_thread_running, uiPc, exitCause, frame, nodeThreadVars,
                   walletResult, previous_wallet_status, previous_channels>>

\* if ... != previous ...: self.balances_changed = True; previous_... = ...;
\* then time.sleep(10) begins
WalletCompare ==
    /\ walletPc = "cmp"
    /\ balances_changed' = IF WalletChanged THEN TRUE ELSE balances_changed
    /\ previous_wallet_status' = wallet_active
    /\ previous_channels' = channels
    /\ walletResult' = PyNone
    /\ walletPc' = "loop"
    /\ UNCHANGED <<nodeVars, walletVars, inputVars, result_output,
                   background_thread_running, uiPc, exitCause, frame,
                   nodeThreadVars>>

(***************************************************************************)
(* LightningCLIUI.draw_interface.  The terminal is taken to be large       *)
(* enough for every addstr, so no curses.error is raised.                  *)
(***************************************************************************)
\* what the condition of draw_interface would be if it left balances_changed out
RedrawNeededWithoutFlag == show_menu \/ result_output # "" \/ current_command # <<>>

\* if self.show_menu or self.balances_changed or self.result_output or self.current_command
RedrawNeeded ==
    show_menu \/ balances_changed \/ result_output # "" \/ current_command # <<>>

StatusText(active) == PyStr(IF active THEN "Active" ELSE "Inactive")

\* the redraw decision; then clear(), the title, draw_menu or draw_result_output,
\* the prompt, and draw_balance_panel up to its first read of NodeState
DrawDecide(outcomes) ==
    /\ uiPc = "draw"
    /\ IF RedrawNeeded
       THEN \E o \in outcomes :
              LET balances == get_balances(run_command("listfunds", o)) IN
              /\ frame' = [BlankFrame EXCEPT
                             !.output = IF show_menu THEN [ty |-> "menu"]
                                        ELSE PyStr(result_output)]
              /\ IF isinstance(balances[1], "str") \/ isinstance(balances[2], "str")
                 THEN /\ result_output' =
                            "Error: " \o balances[1].v \o " " \o balances[2].v
                      /\ uiPc' = "rd_height"
                 ELSE /\ UNCHANGED result_output
                      /\ uiPc' = "rd_node_active"
       ELSE /\ uiPc' = "getch"
            /\ UNCHANGED <<frame, result_output>>
    /\ UNCHANGED <<nodeVars, walletVars, inputVars, balances_changed,
                   background_thread_running, exitCause, nodeThreadVars,
                   walletThreadVars>>

\* node_status = "Active" if self.node.node_active else "Inactive"
ReadNodeActive ==
    /\ uiPc = "rd_node_active"
    /\ frame' = [frame EXCEPT !.node_status = StatusText(node_active)]
    /\ uiPc' = "rd_wallet_active"
    /\ UNCHANGED <<nodeVars, walletVars, inputVars, result_output, balances_changed,
                   background_thread_running, exitCause, nodeThreadVars,
                   walletThreadVars>>

\* wallet_status = "Active" if self.node.wallet_active else "Inactive"
\* (the frame does not record the wallet regions)
ReadWalletActive ==
    /\ uiPc = "rd_wallet_active"
    /\ uiPc' = "rd_peers"
    /\ UNCHANGED <<frame, nodeVars, walletVars, inputVars, result_output, balances_changed,
                   background_thread_running, exitCause, nodeThreadVars,
                   walletThreadVars>>

\* f"Peers: {self.node.num_peers}"
ReadPeers ==
    /\ uiPc = "rd_peers"
    /\ frame' = [frame EXCEPT !.peers = num_peers]
    /\ uiPc' = "rd_channels"
    /\ UNCHANGED <<nodeVars, walletVars, inputVars, result_output, balances_changed,
                   background_thread_running, exitCause, nodeThreadVars,
                   walletThreadVars>>

\* for i, channel in enumerate(self.node.channels): ...
\* (the frame does not record the wallet regions)
ReadChannels ==
    /\ uiPc = "rd_channels"
    /\ uiPc' = "rd_height"
    /\ UNCHANGED <<frame, nodeVars, walletVars, inputVars, result_output, balances_changed,
                   background_thread_running, exitCause, nodeThreadVars,
                   walletThreadVars>>

\* draw_block_height: block_height = self.node.get_block_height()
ReadHeight ==
    /\ uiPc = "rd_height"
    /\ frame' = [frame EXCEPT !.height = get_block_height(current_block_height)]
    /\ uiPc' = "clear"
    /\ UNCHANGED <<nodeVars, walletVars, inputVars, result_output, balances_changed,
                   background_thread_running, exitCause, nodeThreadVars,
                   walletThreadVars>>

\* refresh(); self.balances_changed = False; self.result_output = ''
ClearFlags ==
    /\ uiPc = "clear"
    /\ balances_changed' = FALSE
    /\ result_output' = ""
    /\ frame' = BlankFrame
    /\ uiPc' = "getch"
    /\ UNCHANGED <<nodeVars, walletVars, inputVars, background_thread_running,
                   exitCause, nodeThreadVars, walletThreadVars>>

(***************************************************************************)
(* int(), str() and json.dumps(..., indent=4).                             *)
(***************************************************************************)
Digits == <<"0", "1", "2", "3", "4", "5", "6", "7", "8", "9">>
IsDigit(c) == \E d \in DOMAIN Digits : Digits[d] = c
DigitVal(c) == (CHOOSE d \in DOMAIN Digits : Digits[d] = c) - 1

\* the digits of a literal, without its sign
Unsigned(w) == IF w # <<>> /\ w[1] \in {"+", "-"} THEN Tail(w) ELSE w

\* int(w) does not raise ValueError
IsIntLiteral(w) ==
    /\ Unsigned(w) # <<>>
    /\ \A i \in DOMAIN Unsigned(w) : IsDigit(Unsigned(w)[i])

RECURSIVE DigitsValue(_, _)
DigitsValue(w, acc) ==
    IF w = <<>> THEN acc ELSE DigitsValue(Tail(w), 10 * acc + DigitVal(Head(w)))

\* int(w)
ParseInt(w) ==
    IF w[1] = "-" THEN 0 - DigitsValue(Unsigned(w), 0) ELSE DigitsValue(Unsigned(w), 0)

RECURSIVE NatToStr(_)
NatToStr(n) ==
    IF n < 10 THEN Digits[n + 1] ELSE NatToStr(n \div 10) \o Digits[(n % 10) + 1]

\* str(n)
IntToStr(n) == IF n < 0 THEN "-" \o NatToStr(0 - n) ELSE NatToStr(n)

RECURSIVE Pad(_)
\* the indentation of nesting level n
Pad(n) == IF n = 0 THEN "" ELSE "    " \o Pad(n - 1)

RECURSIVE JsonDumps(_, _)
RECURSIVE JsonItems(_, _)
RECURSIVE JsonEntries(_, _, _)

\* the items of a list, one per line
JsonItems(items, level) ==
    Pad(level) \o JsonDumps(Head(items), level)
    \o (IF Len(items) = 1 THEN "" ELSE ",\n" \o JsonItems(Tail(items), level))

\* the entries of a dict whose keys are still to be written, one per line
JsonEntries(d, keys, level) ==
    LET k == CHOOSE key \in keys : TRUE IN
    Pad(level) \o "\"" \o k \o "\": " \o JsonDumps(d[k], level)
    \o (IF keys = {k} THEN "" ELSE ",\n" \o JsonEntries(d, keys \ {k}, level))

\* json.dumps(x, indent=4), x at nesting level `level`
JsonDumps(x, level) ==
    CASE x.ty = "NoneType" -> "null"
      [] x.ty = "int" -> IntToStr(x.v)
      [] x.ty = "str" -> "\"" \o x.v \o "\""
      [] x.ty = "list" ->
            IF x.v = <<>> THEN "[]"
            ELSE "[\n" \o JsonItems(x.v, level + 1) \o "\n" \o Pad(level) \o "]"
      [] x.ty = "dict" ->
            IF DOMAIN x.v = {} THEN "{}"
            ELSE "{\n" \o JsonEntries(x.v, DOMAIN x.v, level + 1) \o "\n"
                 \o Pad(level) \o "}"

\* LightningCLIUI.format_json: no line is longer than the terminal is wide, so
\* textwrap.wrap leaves every line as it is
format_json(json_data) == JsonDumps(json_data, 0)

(***************************************************************************)
(* LightningCLIUI.execute_command, up to the point where it returns,       *)
(* raises or opens a popup.  o is what lightning-cli does if it is run.    *)
(* The result says how the call ended (kind), the Gateway calls it made    *)
(* (calls) and the attributes it left.                                     *)
(***************************************************************************)
\* what the parameters would be if they were passed in the opposite order
WordsReversed(chars) == [i \in DOMAIN chars |-> JoinChars(chars[Len(chars) + 1 - i])]

Words(chars) == [i \in DOMAIN chars |-> JoinChars(chars[i])]

\* LightningNode.open_channel
open_channel_call(peer_id, amount, feerate) ==
    <<"fundchannel", <<peer_id, amount>> \o (IF feerate # "" THEN <<feerate>> ELSE <<>>)>>

\* LightningNode.close_channel
close_channel_call(channel_id, force) ==
    <<"close", <<channel_id>> \o (IF force THEN <<"force">> ELSE <<>>)>>

UpperCase == <<"A", "B", "C", "D", "E", "F", "G", "H", "I", "J", "K", "L", "M",
               "N", "O", "P", "Q", "R", "S", "T", "U", "V", "W", "X", "Y", "Z">>
LowerCase == <<"a", "b", "c", "d", "e", "f", "g", "h", "i", "j", "k", "l", "m",
               "n", "o", "p", "q", "r", "s", "t", "u", "v", "w", "x", "y", "z">>

\* what str.lower() would be if it left every character as it is
LowerUnchanged(c) == c

\* str.lower(), one character
Lower(c) ==
    IF \E i \in DOMAIN UpperCase : UpperCase[i] = c
    THEN LowerCase[CHOOSE i \in DOMAIN UpperCase : UpperCase[i] = c]
    ELSE c

LowerWord(w) == JoinChars([i \in DOMAIN w |-> Lower(w[i])])

\* what execute_command would be if "quit" returned like any other command
EndedAlwaysReturns(kind, history, output, running, calls, resp) ==
    [kind |-> "return", history |-> history, output |-> output, running |-> running,
     calls |-> calls, response |-> resp]

Ended(kind, history, output, running, calls, resp) ==
    [kind |-> kind, history |-> history, output |-> output, running |-> running,
     calls |-> calls, response |-> resp]

\* what execute_command would be if it forwarded every line to lightning-cli
\* without looking at the number of parameters
execute_command_forwarding(command, o) ==
    IF Split(command) = <<>>
    THEN Ended("return", command_history, result_output, background_thread_running,
               <<>>, PyNone)
    ELSE LET parts == Split(command)
             resp == run_command(JoinChars(parts[1]), o)
         IN Ended("return", Append(command_history, command),
                  IF isinstance(resp, "dict") THEN format_json(resp) ELSE resp.v,
                  background_thread_running,
                  << <<JoinChars(parts[1]), Words(Tail(parts))>> >>, PyNone)

execute_command(command, o) ==
    IF Strip(command) = <<>>
    THEN Ended("return", command_history, result_output, background_thread_running,
               <<>>, PyNone)
    ELSE
    LET history == Append(command_history, command)
        parts == Split(command)
        command_name == JoinChars(parts[1])
        params == Tail(parts)
        running == background_thread_running
    IN
    IF parts = <<>>
    THEN Ended("raise", history, "list index out of range", running, <<>>, PyNone)
    ELSE IF command_name = "quit"
    THEN Ended("SystemExit", history, result_output, FALSE, <<>>, PyNone)
    ELSE IF command_name = "openchannel"
    THEN IF Len(params) < 2
         THEN Ended("return", history,
                    "Error: Usage: openchannel <peer_id> <amount> [feerate]",
                    running, <<>>, PyNone)
         ELSE LET call == open_channel_call(JoinChars(params[1]), JoinChars(params[2]),
                              IF Len(params) > 2 THEN JoinChars(params[3]) ELSE "")
              IN Ended("return", history, JsonDumps(run_command(call[1], o), 0),
                       running, <<call>>, PyNone)
    ELSE IF command_name = "closechannel"
    THEN IF Len(params) < 1
         THEN Ended("return", history, "Error: Usage: closechannel <channel_id> [force]",
                    running, <<>>, PyNone)
         ELSE LET force == Len(params) > 1 /\ LowerWord(params[2]) = "force"
                  call == close_channel_call(JoinChars(params[1]), force)
              IN Ended("return", history, JsonDumps(run_command(call[1], o), 0),
                       running, <<call>>, PyNone)
    ELSE IF command_name = "invoice"
    THEN IF Len(params) < 3
         THEN Ended("return", history, "Error: Usage: invoice <amt> <label> <desc>",
                    running, <<>>, PyNone)
         ELSE IF ~IsIntLiteral(params[1])
         THEN Ended("raise", history,
                    "invalid literal for int() with base 10: '"
                        \o JoinChars(params[1]) \o "'",
                    running, <<>>, PyNone)
         ELSE LET amt == IntToStr(ParseInt(params[1]) * 1000)
                  label == JoinChars(params[2])
                  desc == JoinWith(" ", Words(SubSeq(params, 3, Len(params))))
                  call == <<"invoice", <<amt, label, desc>>>>
                  resp == run_command("invoice", o)
              IN IF isinstance(resp, "dict") /\ "bolt11" \in DOMAIN resp.v
                 THEN Ended("bolt11_popup", history, result_output, running,
                            <<call>>, resp)
                 ELSE Ended("return", history, format_json(resp), running,
                            <<call>>, PyNone)
    ELSE IF command_name = "fetchinvoice"
    THEN Ended("bolt12_popup", history, result_output, running, <<>>, PyNone)
    ELSE LET call == <<command_name, Words(params)>>
             resp == run_command(command_name, o)
         IN Ended("return", history,
                  IF isinstance(resp, "dict") THEN format_json(resp) ELSE resp.v,
                  running, <<call>>, PyNone)

(***************************************************************************)
(* LightningCLIUI.run: one key per iteration.  The operator types the      *)
(* lines of `lines`, may erase what is typed, and submits a complete line  *)
(* or a blank one.                                                         *)
(***************************************************************************)
\* what lightning-cli may answer to a command of the operator
CommandOutcomes ==
    FailureOutcomes
    \cup { Outcome("json", PyDict([bolt11 |-> PyStr("lnbc1")])),
           Outcome("json", PyDict([result |-> PyStr("ok")])) }

\* lines 340-341 and 350-352: reset the input line, redraw it, next iteration
ResetInput ==
    /\ current_command' = <<>>
    /\ cursor_x' = 0
    /\ uiPc' = "draw"

\* key == curses.ERR, or a key run() has no branch for
KeyTimeout ==
    /\ uiPc = "getch"
    /\ uiPc' = "draw"
    /\ UNCHANGED <<nodeVars, walletVars, inputVars, result_output, balances_changed,
                   background_thread_running, exitCause, frame, nodeThreadVars,
                   walletThreadVars>>

\* 32 <= key <= 126
KeyPrintable(lines) ==
    /\ uiPc = "getch"
    /\ \E l \in lines :
         /\ Len(current_command) < Len(l)
         /\ IsPrefix(current_command, l)
         /\ current_command' = Append(current_command, l[Len(current_command) + 1])
    /\ cursor_x' = cursor_x + 1
    /\ uiPc' = "draw"
    /\ UNCHANGED <<nodeVars, walletVars, command_history, show_menu, response,
                   dispatchCalls, popupVars,
                   result_output, balances_changed, background_thread_running,
                   exitCause, frame, nodeThreadVars, walletThreadVars>>

\* key == curses.KEY_BACKSPACE or key == 127
KeyBackspace ==
    /\ uiPc = "getch"
    /\ IF current_command # <<>>
       THEN /\ current_command' = SubSeq(current_command, 1, Len(current_command) - 1)
            /\ cursor_x' = IF cursor_x - 1 > 0 THEN cursor_x - 1 ELSE 0
       ELSE UNCHANGED <<current_command, cursor_x>>
    /\ uiPc' = "draw"
    /\ UNCHANGED <<nodeVars, walletVars, command_history, show_menu, response,
                   dispatchCalls, popupVars,
                   result_output, balances_changed, background_thread_running,
                   exitCause, frame, nodeThreadVars, walletThreadVars>>

\* key == 27
KeyEsc ==
    /\ uiPc = "getch"
    /\ background_thread_running' = FALSE
    /\ uiPc' = "exited"
    /\ exitCause' = "esc"
    /\ UNCHANGED <<nodeVars, walletVars, inputVars, result_output, balances_changed,
                   frame, nodeThreadVars, walletThreadVars>>

\* what the "help" branch would be if it passed the line on to lightning-cli
SubmitHelpCalling ==
    /\ show_menu' = TRUE
    /\ balances_changed' = TRUE
    /\ dispatchCalls' = << <<"help", <<>> >> >>
    /\ ResetInput
    /\ UNCHANGED <<command_history, response, result_output,
                   background_thread_running, exitCause>>

\* key in (curses.KEY_ENTER, 10, 13), the "help" branch
SubmitHelp ==
    /\ show_menu' = TRUE
    /\ balances_changed' = IF ~show_menu THEN TRUE ELSE balances_changed
    /\ dispatchCalls' = <<>>
    /\ ResetInput
    /\ UNCHANGED <<command_history, response, result_output,
                   background_thread_running, exitCause>>

\* key in (curses.KEY_ENTER, 10, 13), the "pay" branch: pay_invoice_popup opens
SubmitPay ==
    /\ uiPc' = "pay_popup"
    /\ dispatchCalls' = <<>>
    /\ UNCHANGED <<command_history, current_command, cursor_x, show_menu, response,
                   result_output, balances_changed, background_thread_running,
                   exitCause>>

\* key in (curses.KEY_ENTER, 10, 13), the else branch: execute_command
SubmitCommand(outcomes) ==
    \E o \in outcomes :
      LET r == execute_command(current_command, o) IN
      /\ show_menu' = FALSE
      /\ command_history' = r.history
      /\ background_thread_running' = r.running
      /\ response' = r.response
      /\ dispatchCalls' = r.calls
      /\ CASE r.kind = "return" ->
                /\ result_output' = r.output
                /\ balances_changed' = TRUE
                /\ ResetInput
                /\ UNCHANGED exitCause
           [] r.kind = "SystemExit" ->
                /\ uiPc' = "exited"
                /\ exitCause' = "SystemExit"
                /\ UNCHANGED <<current_command, cursor_x, result_output,
                               balances_changed>>
           [] r.kind = "raise" ->
                \* except Exception as e, outside the while loop
                /\ result_output' = "Error: " \o r.output
                /\ uiPc' = "exited"
                /\ exitCause' = "exception"
                /\ UNCHANGED <<current_command, cursor_x, balances_changed>>
           [] r.kind \in {"bolt11_popup", "bolt12_popup"} ->
                /\ uiPc' = r.kind
                /\ UNCHANGED <<current_command, cursor_x, result_output,
                               balances_changed, exitCause>>

KeyEnter(lines, outcomes) ==
    /\ uiPc = "getch"
    /\ current_command \in lines \/ Strip(current_command) = <<>>
    /\ IF JoinChars(Strip(current_command)) = "help" THEN SubmitHelp
       ELSE IF JoinChars(Strip(current_command)) = "pay" THEN SubmitPay
       ELSE SubmitCommand(outcomes)
    /\ UNCHANGED <<nodeVars, walletVars, frame, popupVars, nodeThreadVars,
                   walletThreadVars>>

\* show_bolt11_popup: popup_win.getch() returns; then the rest of
\* execute_command and of the Enter branch of run()
DismissBolt11 ==
    /\ uiPc = "bolt11_popup"
    /\ result_output' = format_json(response)
    /\ response' = PyNone
    /\ balances_changed' = TRUE
    /\ ResetInput
    /\ UNCHANGED <<nodeVars, walletVars, command_history, show_menu, dispatchCalls,
                   popupVars, background_thread_running, exitCause, frame,
                   nodeThreadVars, walletThreadVars>>

\* pay_invoice_popup, one turn of its loop: input_window.getstr() returns a
\* line that is not blank
PayReadLine(line) ==
    /\ uiPc = "pay_popup"
    /\ Strip(line) # <<>>
    /\ invoice_lines' = Append(invoice_lines, JoinChars(Strip(line)))
    /\ UNCHANGED <<nodeVars, walletVars, command_history, current_command, cursor_x,
                   show_menu, response, dispatchCalls, input_buffer, cursor_pos,
                   scroll_offset, result_output, balances_changed,
                   background_thread_running, uiPc, exitCause, frame, nodeThreadVars,
                   walletThreadVars>>

\* what the end of pay_invoice_popup would be if it called lightning-cli
\* whatever the invoice is, the empty one too
DismissPayAlwaysCalls(lines, outcomes) ==
    /\ uiPc = "pay_popup"
    /\ \E line \in lines : Strip(line) = <<>>
    /\ \E o \in outcomes :
         LET resp == run_command("pay", o) IN
         /\ dispatchCalls' =
                Append(dispatchCalls, <<"pay", <<JoinWith("", invoice_lines)>>>>)
         /\ result_output' =
                IF isinstance(resp, "dict") THEN format_json(resp) ELSE resp.v
    /\ invoice_lines' = <<>>
    /\ balances_changed' = TRUE
    /\ ResetInput
    /\ UNCHANGED <<nodeVars, walletVars, command_history, show_menu, response,
                   input_buffer, cursor_pos, scroll_offset,
                   background_thread_running, exitCause, frame, nodeThreadVars,
                   walletThreadVars>>

\* pay_invoice_popup from the blank line that ends its loop on, then the rest
\* of the "pay" branch of run()
DismissPay(lines, outcomes) ==
    /\ uiPc = "pay_popup"
    /\ \E line \in lines : Strip(line) = <<>>
    /\ \E o \in outcomes :
         LET invoice == JoinWith("", invoice_lines) IN
         IF invoice # ""
         THEN LET resp == run_command("pay", o) IN
              /\ dispatchCalls' = Append(dispatchCalls, <<"pay", <<invoice>>>>)
              /\ result_output' =
                     IF isinstance(resp, "dict") THEN format_json(resp) ELSE resp.v
         ELSE UNCHANGED <<dispatchCalls, result_output>>
    /\ invoice_lines' = <<>>
    /\ balances_changed' = TRUE
    /\ ResetInput
    /\ UNCHANGED <<nodeVars, walletVars, command_history, show_menu, response,
                   input_buffer, cursor_pos, scroll_offset,
                   background_thread_running, exitCause, frame, nodeThreadVars,
                   walletThreadVars>>

\* popup_width - 4, the number of columns of show_bolt12_popup's input line
VisibleWidth == 2

\* a key that leaves show_bolt12_popup open: nothing but its locals changes
Bolt12Stays ==
    UNCHANGED <<nodeVars, walletVars, command_history, current_command, cursor_x,
                show_menu, response, dispatchCalls, invoice_lines, result_output,
                balances_changed, background_thread_running, uiPc, exitCause, frame,
                nodeThreadVars, walletThreadVars>>

\* show_bolt12_popup ends (break): the rest of execute_command and of the
\* Enter branch of run()
Bolt12Leaves ==
    /\ input_buffer' = <<>>
    /\ cursor_pos' = 0
    /\ scroll_offset' = 0
    /\ balances_changed' = TRUE
    /\ ResetInput
    /\ UNCHANGED <<nodeVars, walletVars, command_history, show_menu, response,
                   invoice_lines, background_thread_running, exitCause, frame,
                   nodeThreadVars, walletThreadVars>>

\* 32 <= key <= 126
Bolt12Printable(chars) ==
    /\ uiPc = "bolt12_popup"
    /\ \E c \in chars :
         input_buffer' = SubSeq(input_buffer, 1, cursor_pos) \o <<c>>
                            \o SubSeq(input_buffer, cursor_pos + 1, Len(input_buffer))
    /\ cursor_pos' = cursor_pos + 1
    /\ scroll_offset' = IF cursor_pos + 1 >= scroll_offset + VisibleWidth
                        THEN scroll_offset + 1 ELSE scroll_offset
    /\ Bolt12Stays

\* key in (curses.KEY_BACKSPACE, 127)
Bolt12Backspace ==
    /\ uiPc = "bolt12_popup"
    /\ IF cursor_pos > 0
       THEN /\ input_buffer' = SubSeq(input_buffer, 1, cursor_pos - 1)
                                  \o SubSeq(input_buffer, cursor_pos + 1, Len(input_buffer))
            /\ cursor_pos' = cursor_pos - 1
            /\ scroll_offset' = IF scroll_offset > 0 THEN scroll_offset - 1
                                ELSE scroll_offset
       ELSE UNCHANGED <<input_buffer, cursor_pos, scroll_offset>>
    /\ Bolt12Stays

\* what KEY_LEFT would be if it never moved the viewport
Bolt12LeftKeepsOffset ==
    /\ uiPc = "bolt12_popup"
    /\ cursor_pos' = IF cursor_pos > 0 THEN cursor_pos - 1 ELSE cursor_pos
    /\ UNCHANGED <<input_buffer, scroll_offset>>
    /\ Bolt12Stays

\* key == curses.KEY_LEFT
Bolt12Left ==
    /\ uiPc = "bolt12_popup"
    /\ IF cursor_pos > 0
       THEN /\ cursor_pos' = cursor_pos - 1
            /\ scroll_offset' = IF cursor_pos - 1 < scroll_offset THEN scroll_offset - 1
                                ELSE scroll_offset
       ELSE UNCHANGED <<cursor_pos, scroll_offset>>
    /\ UNCHANGED input_buffer
    /\ Bolt12Stays

\* key == curses.KEY_RIGHT
Bolt12Right ==
    /\ uiPc = "bolt12_popup"
    /\ IF cursor_pos < Len(input_buffer)
       THEN /\ cursor_pos' = cursor_pos + 1
            /\ scroll_offset' = IF cursor_pos + 1 >= scroll_offset + VisibleWidth
                                THEN scroll_offset + 1 ELSE scroll_offset
       ELSE UNCHANGED <<cursor_pos, scroll_offset>>
    /\ UNCHANGED input_buffer
    /\ Bolt12Stays

\* key in (curses.KEY_ENTER, 10, 13): execute_fetchinvoice when the input is
\* not blank, and the popup ends; the popup stays open otherwise
Bolt12Enter(outcomes) ==
    /\ uiPc = "bolt12_popup"
    /\ IF Strip(input_buffer) # <<>>
       THEN /\ \E o \in outcomes :
                 LET bolt12_code == JoinChars(Strip(input_buffer))
                     resp == run_command("fetchinvoice", o)
                 IN /\ dispatchCalls' =
                          Append(dispatchCalls, <<"fetchinvoice", <<bolt12_code>>>>)
                    /\ result_output' =
                          IF isinstance(resp, "dict") THEN format_json(resp) ELSE resp.v
            /\ Bolt12Leaves
       ELSE /\ UNCHANGED <<input_buffer, cursor_pos, scroll_offset>>
            /\ Bolt12Stays

\* key == 27
Bolt12Esc ==
    /\ uiPc = "bolt12_popup"
    /\ UNCHANGED <<dispatchCalls, result_output>>
    /\ Bolt12Leaves

(***************************************************************************)
(* History.  The recorders below look at a step of the program and note    *)
(* what it did; they restrict no step.                                     *)
(***************************************************************************)
\* the node poller's part of NodeState, as one snapshot
Snapshot(active, height, peers) == [node_active |-> active, height |-> height, peers |-> peers]

\* the regions of frame f drawn so far show snapshot s
Matches(s, f) ==
    /\ f.node_status \in {Blank, StatusText(s.node_active)}
    /\ f.peers \in {Blank, s.peers}
    /\ f.height \in {Blank, get_block_height(s.height)}

\* NodeState as the last completed poll cycle of the node poller left it (as
\* __init__ left it, before the first)
Committed ==
    IF nodePc \in {"w_height", "w_peers"}
    THEN Snapshot(previous_status, previous_block_height, prevPeers)
    ELSE Snapshot(node_active, current_block_height, num_peers)

\* draw_interface is past its decision and has not drawn the block height yet
ReadingPcs == {"rd_node_active", "rd_wallet_active", "rd_peers", "rd_channels", "rd_height"}

\* the running draw_interface has read the attribute already
HasRead(field) ==
    CASE field = "node_active" -> frame.node_status # Blank
      [] field = "wallet_active" -> frame.node_status # Blank /\ uiPc # "rd_wallet_active"
      [] field = "num_peers" -> frame.peers # Blank
      [] field = "channels" -> frame.peers # Blank /\ uiPc # "rd_channels"
      [] field = "current_block_height" -> frame.height # Blank

\* the step is the last write of check_node_status
NodeCommits == nodePc \in {"call", "w_peers"} /\ nodePc' = "cmp"

\* the step gives an attribute that poller p compares a new value
Writes(p) ==
    IF p = "node"
    THEN node_active' # node_active \/ current_block_height' # current_block_height
    ELSE wallet_active' # wallet_active \/ channels' # channels

\* the step changes what an attribute shows after the running redraw read it
WritesBehind(p) ==
    IF p = "node"
    THEN \/ node_active' # node_active /\ HasRead("node_active")
         \/ /\ get_block_height(current_block_height') # get_block_height(current_block_height)
            /\ HasRead("current_block_height")
    ELSE \/ wallet_active' # wallet_active /\ HasRead("wallet_active")
         \/ channels' # channels /\ HasRead("channels")

\* the step is poller p executing self.balances_changed = True
Raises(p) ==
    IF p = "node"
    THEN nodePc = "cmp" /\ nodePc' # "cmp" /\ NodeChanged
    ELSE walletPc = "cmp" /\ walletPc' # "cmp" /\ WalletChanged

RecordPeers ==
    prevPeers' = IF nodePc = "cmp" /\ nodePc' # "cmp" THEN num_peers ELSE prevPeers

RecordSnaps ==
    seenSnaps' =
        IF uiPc' # uiPc
        THEN IF uiPc = "draw" /\ uiPc' \in ReadingPcs
             THEN {s \in {Committed} : Matches(s, frame')}
             ELSE IF uiPc' \in ReadingPcs \cup {"clear"}
             THEN {s \in seenSnaps : Matches(s, frame')}
             ELSE {}
        ELSE IF NodeCommits /\ uiPc \in ReadingPcs /\ Matches(Committed', frame)
        THEN seenSnaps \cup {Committed'}
        ELSE seenSnaps

RecordUnseen ==
    unseen' = IF uiPc = "draw" /\ uiPc' # "draw"
              THEN [p \in Pollers |-> FALSE]
              ELSE [p \in Pollers |-> unseen[p] \/ Writes(p)]

RecordStale ==
    stale' = IF uiPc = "clear" /\ uiPc' # "clear"
             THEN [p \in Pollers |-> "no"]
             ELSE [p \in Pollers |->
                     IF stale[p] = "no" /\ WritesBehind(p) THEN "changed"
                     ELSE IF stale[p] = "changed" /\ Raises(p) THEN "raised"
                     ELSE stale[p]]

\* a step of the program, nothing recorded but the peer count of the last cycle
\* the places of the main thread inside a popup
PopupPcs == {"pay_popup", "bolt11_popup", "bolt12_popup"}

\* a redraw begins: draw_interface finds something to draw
RedrawBegins == uiPc = "draw" /\ uiPc' \notin {"draw", "getch"}

RecordMenu == menuDrawn' = IF RedrawBegins THEN show_menu ELSE menuDrawn

RecordRaised ==
    raisedInDialog' =
        IF uiPc \notin PopupPcs /\ uiPc' \in PopupPcs THEN FALSE
        ELSE IF uiPc = "clear" /\ uiPc' # "clear" THEN FALSE
        ELSE IF uiPc \in PopupPcs /\ uiPc' = uiPc /\ ~balances_changed /\ balances_changed'
        THEN TRUE
        ELSE raisedInDialog

RecordLoop == RecordMenu /\ RecordRaised

\* the lines typed into the pay popup are forgotten when the redraw after it
\* is finished
RecordEntered ==
    enteredLines' = IF uiPc = "clear" /\ uiPc' # "clear" THEN <<>> ELSE enteredLines

Plain(step) ==
    /\ step
    /\ RecordPeers
    /\ RecordLoop
    /\ RecordEntered
    /\ UNCHANGED <<seenSnaps, unseen, stale, callVars, keyVars>>

\* a step of pay_invoice_popup in which getstr returned the line
Entered(step, line) ==
    /\ step
    /\ enteredLines' = Append(enteredLines, line)
    /\ RecordPeers
    /\ RecordLoop
    /\ UNCHANGED <<seenSnaps, unseen, stale, callVars, keyVars>>

\* a step of the main loop in which getch returned the key k
Keyed(step, k) ==
    /\ step
    /\ lastKey' = k
    /\ lastLine' = IF k = "enter" THEN current_command ELSE lastLine
    /\ RecordPeers
    /\ RecordLoop
    /\ RecordEntered
    /\ UNCHANGED <<seenSnaps, unseen, stale, callVars>>

\* a step of the program, recorded
Observed(step) ==
    step /\ RecordPeers /\ RecordSnaps /\ RecordUnseen /\ RecordStale /\ RecordLoop
         /\ RecordEntered /\ UNCHANGED <<callVars, keyVars>>

(***************************************************************************)
(* Spec: the two pollers and the main loop.  The operator presses Enter on *)
(* an empty line or the cancel key.                                        *)
(***************************************************************************)
\* what lightning-cli answers to the pollers and to the balance panel
PollFailures == { Outcome("notfound", ""), Outcome("json", PyList(<<>>)) }
PollGetinfo == PollFailures \cup { Outcome("json", d) : d \in GetinfoDicts }
PollListfunds == PollFailures \cup { Outcome("json", d) : d \in ListfundsDicts }
PanelListfunds ==
    { Outcome("notfound", ""),
      Outcome("json", PyDict([outputs |-> PyList(<<>>), channels |-> PyList(<<>>)])) }

Next ==
    \/ Plain(NodeTest)
    \/ Plain(NodeCheck(PollGetinfo))
    \/ Plain(NodeWriteHeight)
    \/ Plain(NodeWritePeers)
    \/ Plain(NodeCompare)
    \/ Plain(WalletTest)
    \/ Plain(WalletCheck(PollListfunds))
    \/ Plain(WalletWriteChannels)
    \/ Plain(WalletCompare)
    \/ Plain(DrawDecide(PanelListfunds))
    \/ Plain(ReadNodeActive)
    \/ Plain(ReadWalletActive)
    \/ Plain(ReadPeers)
    \/ Plain(ReadChannels)
    \/ Plain(ReadHeight)
    \/ Plain(ClearFlags)
    \/ Plain(KeyTimeout)
    \/ Plain(KeyEnter({}, CommandOutcomes))
    \/ Plain(KeyEsc)

Spec == Init /\ [][Next]_vars

(***************************************************************************)
(* SpecObserved: the same steps, with the history recorded.  listfunds     *)
(* fails or reports one channel when the wallet poller asks.               *)
(***************************************************************************)
ObservedListfunds ==
    { Outcome("notfound", "") }
    \cup { Outcome("json", PyDict([outputs |-> PyList(<<>>), channels |-> PyList(<<c>>)])) :
             c \in ChannelDicts }

NextObserved ==
    \/ Observed(NodeTest)
    \/ Observed(NodeCheck(PollGetinfo))
    \/ Observed(NodeWriteHeight)
    \/ Observed(NodeWritePeers)
    \/ Observed(NodeCompare)
    \/ Observed(WalletTest)
    \/ Observed(WalletCheck(ObservedListfunds))
    \/ Observed(WalletWriteChannels)
    \/ Observed(WalletCompare)
    \/ Observed(DrawDecide(PanelListfunds))
    \/ Observed(ReadNodeActive)
    \/ Observed(ReadWalletActive)
    \/ Observed(ReadPeers)
    \/ Observed(ReadChannels)
    \/ Observed(ReadHeight)
    \/ Observed(ClearFlags)
    \/ Observed(KeyTimeout)
    \/ Observed(KeyEnter({}, CommandOutcomes))
    \/ Observed(KeyEsc)

SpecObserved == Init /\ [][NextObserved]_vars

(***************************************************************************)
(* FairSpec: the two pollers, each scheduled again and again as long as it *)
(* has a step to take (its sleep ends, its subprocess returns), and an     *)
(* operator who types "quit", erases, presses Enter or the cancel key.     *)
(* The process is taken to live on after run() has ended, so that the      *)
(* pollers are seen to stop by themselves.                                 *)
(***************************************************************************)
QuitLine == <<"q", "u", "i", "t">>

FairGetinfo ==
    { Outcome("notfound", ""),
      Outcome("json", PyDict([blockheight |-> PyInt(1), num_peers |-> PyInt(1)])) }
FairListfunds ==
    { Outcome("notfound", ""),
      Outcome("json", PyDict([outputs |-> PyList(<<>>), channels |-> PyList(<<>>)])) }

NodePollerFair ==
    \/ Plain(NodeTest)
    \/ Plain(NodeCheck(FairGetinfo))
    \/ Plain(NodeWriteHeight)
    \/ Plain(NodeWritePeers)
    \/ Plain(NodeCompare)

WalletPollerFair ==
    \/ Plain(WalletTest)
    \/ Plain(WalletCheck(FairListfunds))
    \/ Plain(WalletWriteChannels)
    \/ Plain(WalletCompare)

NextFair ==
    \/ NodePollerFair
    \/ WalletPollerFair
    \/ Plain(DrawDecide(PanelListfunds))
    \/ Plain(ReadNodeActive)
    \/ Plain(ReadWalletActive)
    \/ Plain(ReadPeers)
    \/ Plain(ReadChannels)
    \/ Plain(ReadHeight)
    \/ Plain(ClearFlags)
    \/ Plain(KeyTimeout)
    \/ Plain(KeyPrintable({QuitLine}))
    \/ Plain(KeyBackspace)
    \/ Plain(KeyEnter({QuitLine}, CommandOutcomes))
    \/ Plain(KeyEsc)

FairSpec ==
    Init /\ [][NextFair]_vars /\ WF_vars(NodePollerFair) /\ WF_vars(WalletPollerFair)

(***************************************************************************)
(* SpecCmd: the main thread while both pollers sleep.  The operator types  *)
(* one of CmdLines, erases, presses Enter or the cancel key, and dismisses *)
(* the invoice popup; at most MaxHistory commands are entered.             *)
(***************************************************************************)
MaxHistory == 1
MaxInvoiceLines == 2
MaxBuffer == 3

\* the characters the operator may type into show_bolt12_popup
PopupChars == {"a", " "}

\* what the operator may type as one line of pay_invoice_popup: nothing, a
\* space, a word with spaces around it
PopupLines == { <<>>, <<" ">>, <<" ", "b", "c", " ">> }

CmdLines ==
    { QuitLine,
      \* quit now
      QuitLine \o <<" ", "n", "o", "w">>,
      \* help
      <<"h", "e", "l", "p">>,
      \* help, after a space
      <<" ", "h", "e", "l", "p">>,
      \* help foo
      <<"h", "e", "l", "p", " ", "f", "o", "o">>,
      \* pay
      <<"p", "a", "y">>,
      \* fetchinvoice
      <<"f", "e", "t", "c", "h", "i", "n", "v", "o", "i", "c", "e">>,
      \* invoice 2 a b
      <<"i", "n", "v", "o", "i", "c", "e", " ", "2", " ", "a", " ", "b">>,
      \* invoice x a b
      <<"i", "n", "v", "o", "i", "c", "e", " ", "x", " ", "a", " ", "b">>,
      \* invoice
      <<"i", "n", "v", "o", "i", "c", "e">>,
      \* invoice 1 l
      <<"i", "n", "v", "o", "i", "c", "e", " ", "1", " ", "l">>,
      \* invoice 100 mylabel a coffee
      <<"i", "n", "v", "o", "i", "c", "e", " ", "1", "0", "0", " ", "m", "y", "l", "a", "b", "e", "l", " ", "a", " ", "c", "o", "f", "f", "e", "e">>,
      \* invoice -1 l a  b
      <<"i", "n", "v", "o", "i", "c", "e", " ", "-", "1", " ", "l", " ", "a", " ", " ", "b">>,
      \* openchannel p
      <<"o", "p", "e", "n", "c", "h", "a", "n", "n", "e", "l", " ", "p">>,
      \* openchannel p 5
      <<"o", "p", "e", "n", "c", "h", "a", "n", "n", "e", "l", " ", "p", " ", "5">>,
      \* closechannel
      <<"c", "l", "o", "s", "e", "c", "h", "a", "n", "n", "e", "l">>,
      \* closechannel c
      <<"c", "l", "o", "s", "e", "c", "h", "a", "n", "n", "e", "l", " ", "c">>,
      \* closechannel c FORCE
      <<"c", "l", "o", "s", "e", "c", "h", "a", "n", "n", "e", "l", " ", "c", " ", "F", "O", "R", "C", "E">>,
      \* closechannel c now
      <<"c", "l", "o", "s", "e", "c", "h", "a", "n", "n", "e", "l", " ", "c", " ", "n", "o", "w">>,
      \* listpeers
      <<"l", "i", "s", "t", "p", "e", "e", "r", "s">>,
      \* listpeers a  B
      <<"l", "i", "s", "t", "p", "e", "e", "r", "s", " ", "a", " ", " ", "B">>,
      \* a blank
      <<" ">> }

NextCmd ==
    \/ Plain(DrawDecide(PanelListfunds))
    \/ Plain(ReadNodeActive)
    \/ Plain(ReadWalletActive)
    \/ Plain(ReadPeers)
    \/ Plain(ReadChannels)
    \/ Plain(ReadHeight)
    \/ Plain(ClearFlags)
    \/ Keyed(KeyTimeout, "timeout")
    \/ Keyed(KeyPrintable(CmdLines), "printable")
    \/ Keyed(KeyBackspace, "backspace")
    \/ Keyed(Len(command_history) < MaxHistory /\ KeyEnter(CmdLines, CommandOutcomes),
             "enter")
    \/ Keyed(KeyEsc, "esc")
    \/ Plain(DismissBolt11)
    \/ \E line \in PopupLines :
          Entered(Len(invoice_lines) < MaxInvoiceLines /\ PayReadLine(line), line)
    \/ \E line \in PopupLines :
          Entered(DismissPay({line}, CommandOutcomes), line)
    \/ Keyed(Len(input_buffer) < MaxBuffer /\ Bolt12Printable({"a"}), "printable")
    \/ Keyed(Bolt12Backspace, "backspace")
    \/ Keyed(Bolt12Left, "left")
    \/ Keyed(Bolt12Right, "right")
    \/ Keyed(Bolt12Enter(CommandOutcomes), "enter")
    \/ Keyed(Bolt12Esc, "esc")

SpecCmd == Init /\ [][NextCmd]_vars

(***************************************************************************)
(* SpecBolt12: the main thread alone; the operator types "fetchinvoice"    *)
(* and then any keys into show_bolt12_popup.                               *)
(***************************************************************************)
FetchLine == <<"f", "e", "t", "c", "h", "i", "n", "v", "o", "i", "c", "e">>

NextBolt12 ==
    \/ Plain(DrawDecide(PanelListfunds))
    \/ Plain(ReadNodeActive)
    \/ Plain(ReadWalletActive)
    \/ Plain(ReadPeers)
    \/ Plain(ReadChannels)
    \/ Plain(ReadHeight)
    \/ Plain(ClearFlags)
    \/ Keyed(KeyTimeout, "timeout")
    \/ Keyed(KeyPrintable({FetchLine}), "printable")
    \/ Keyed(KeyBackspace, "backspace")
    \/ Keyed(Len(command_history) < MaxHistory /\ KeyEnter({FetchLine}, CommandOutcomes),
             "enter")
    \/ Keyed(KeyEsc, "esc")
    \/ Keyed(Len(input_buffer) < MaxBuffer /\ Bolt12Printable(PopupChars), "printable")
    \/ Keyed(Bolt12Backspace, "backspace")
    \/ Keyed(Bolt12Left, "left")
    \/ Keyed(Bolt12Right, "right")
    \/ Keyed(Bolt12Enter(CommandOutcomes), "enter")
    \/ Keyed(Bolt12Esc, "esc")

SpecBolt12 == Init /\ [][NextBolt12]_vars

(***************************************************************************)
(* SpecModal: the node poller and the main loop; the operator opens the    *)
(* popups with "pay", "fetchinvoice" and an invoice command.               *)
(***************************************************************************)
ModalLines ==
    { <<"p", "a", "y">>, FetchLine,
      <<"i", "n", "v", "o", "i", "c", "e", " ", "2", " ", "a", " ", "b">> }

\* what lightning-cli answers to the invoice command: an invoice
InvoiceAnswers == { Outcome("json", PyDict([bolt11 |-> PyStr("lnbc1")])) }

NextModal ==
    \/ NodePollerFair
    \/ Plain(DrawDecide(PanelListfunds))
    \/ Plain(ReadNodeActive)
    \/ Plain(ReadWalletActive)
    \/ Plain(ReadPeers)
    \/ Plain(ReadChannels)
    \/ Plain(ReadHeight)
    \/ Plain(ClearFlags)
    \/ Keyed(KeyPrintable(ModalLines), "printable")
    \/ Keyed(command_history = <<>> /\ KeyEnter(ModalLines, InvoiceAnswers), "enter")
    \/ Plain(DismissBolt11)
    \/ \E line \in PopupLines :
          Entered(Len(invoice_lines) < MaxInvoiceLines /\ PayReadLine(line), line)
    \/ \E line \in PopupLines :
          Entered(DismissPay({line}, InvoiceAnswers), line)
    \/ Keyed(Len(input_buffer) < MaxBuffer /\ Bolt12Printable({"a"}), "printable")
    \/ Keyed(Bolt12Enter(InvoiceAnswers), "enter")
    \/ Keyed(Bolt12Esc, "esc")

SpecModal == Init /\ [][NextModal]_vars

(***************************************************************************)
(* SpecBalances: one call of get_balances, on anything lightning-cli may   *)
(* do for listfunds: a Failure, JSON that is not an object, an object with *)
(* or without "outputs" and "channels", with well-formed and malformed     *)
(* items.                                                                  *)
(***************************************************************************)
\* the longest "outputs" and "channels" lists of the call
MaxOutputs == 2
MaxFundsChannels == 1

OutputItems ==
    { PyDict([amount_msat |-> PyInt(1500)]), PyDict([amount_msat |-> PyInt(999)]),
      PyDict([amount_msat |-> PyStr("1500msat")]), PyDict([value |-> PyInt(1)]) }

FundsChannelItems ==
    { PyDict([our_amount_msat |-> PyInt(2500)]),
      PyDict([our_amount_msat |-> PyStr("2500msat")]),
      PyDict([short_channel_id |-> PyStr("1x1x1")]) }

BalanceOutcomes ==
    FailureOutcomes
    \cup { Outcome("json", PyList(<<>>)), Outcome("json", PyDict(<<>>)),
           Outcome("json", PyDict([outputs |-> PyNone, channels |-> PyList(<<>>)])) }
    \cup { Outcome("json", PyDict([outputs |-> PyList(outs)])) :
             outs \in SeqsUpTo(OutputItems, MaxOutputs) }
    \cup { Outcome("json", PyDict([outputs |-> PyList(outs), channels |-> PyList(chs)])) :
             outs \in SeqsUpTo(OutputItems, MaxOutputs),
             chs \in SeqsUpTo(FundsChannelItems, MaxFundsChannels) }

InitBalances == InitProgram /\ listfundsOutcome \in BalanceOutcomes /\ balancePair = <<>>

\* onchain_balance, lightning_balance = self.node.get_balances()
GetBalances ==
    /\ balancePair = <<>>
    /\ balancePair' = get_balances(run_command("listfunds", listfundsOutcome))
    /\ UNCHANGED <<progVars, histVars, listfundsOutcome, keyVars, loopVars>>

NextBalances == GetBalances

SpecBalances == InitBalances /\ [][NextBalances]_vars

(***************************************************************************)
(* Properties.                                                             *)
(***************************************************************************)
\* C1: the node status, the peer count and the block height one redraw shows
\* all come from the same poll cycle: when a redraw has drawn the balance
\* panel and the block height, what it shows is NodeState as some completed
\* cycle of the node poller left it while the redraw ran, never a mix of the
\* fields of two cycles.
C1_FrameFromOneCycle ==
    uiPc = "clear" /\ frame.node_status # Blank => seenSnaps # {}

\* C2: when a poll cycle wrote a liveness flag, block height or channel list
\* that differs from the previous cycle's, balances_changed is true at the
\* first redraw decision evaluated after the write.
C2_DirtyAtNextDecision ==
    [][uiPc = "draw" /\ uiPc' # "draw" /\ (\E p \in Pollers : unseen[p])
         => balances_changed]_vars

\* C3: a redraw never clears balances_changed when a poller has changed an
\* attribute after the redraw read it and has raised balances_changed for
\* the change.
C3_NoMissedUpdate ==
    [][uiPc = "clear" /\ uiPc' # "clear" => \A p \in Pollers : stale[p] # "raised"]_vars

\* C4: a node poll cycle in which only num_peers differs from the previous
\* cycle (node_active and current_block_height as before) sets
\* balances_changed to true.
C4_PeersChangeRaises ==
    [][nodePc = "cmp" /\ nodePc' # "cmp" /\ num_peers # prevPeers /\ ~NodeChanged
         => balances_changed']_vars

\* C6: at the end of a node poll cycle whose getinfo call returned a Failure
\* or a value that is not a dict, node_active is false and
\* current_block_height holds the error marker.
C6_FailureMarksHeight ==
    nodePc = "cmp" /\ ~isinstance(nodeResult, "dict")
        => ~node_active /\ current_block_height = PyStr("Error")

\* C7: at the end of a wallet poll cycle, wallet_active = false implies that
\* the channel list is empty.
C7_InactiveWalletNoChannels ==
    walletPc = "cmp" /\ ~wallet_active => channels = PyList(<<>>)

\* C8: a Failure of lightning-cli in a poll cycle leaves the poller's Active
\* flag false for that cycle, the cycle runs to its end, and a poller whose
\* sleep is over starts its next cycle unless background_thread_running is
\* false.
C8_FailureNotFatal ==
    /\ [](isinstance(nodeResult, "str") => ~node_active /\ nodePc = "cmp")
    /\ [](isinstance(walletResult, "str") => ~wallet_active /\ walletPc = "cmp")
    /\ [][/\ nodePc = "cmp" /\ nodePc' # "cmp" => nodePc' = "loop"
          /\ walletPc = "cmp" /\ walletPc' # "cmp" => walletPc' = "loop"
          /\ nodePc = "loop" /\ nodePc' # "loop" /\ background_thread_running
                => nodePc' = "call"
          /\ walletPc = "loop" /\ walletPc' # "loop" /\ background_thread_running
                => walletPc' = "call"]_vars

\* C8, witness: a Failure ended a cycle of a node that was active, and of a
\* wallet that was active, and left both flags false
C8_Witness ==
    /\ nodePc = "cmp" /\ isinstance(nodeResult, "str")
    /\ previous_status /\ ~node_active
    /\ walletPc = "cmp" /\ isinstance(walletResult, "str")
    /\ previous_wallet_status /\ ~wallet_active
    /\ background_thread_running

\* C5: get_balances returns two integers or two error strings, whatever
\* lightning-cli did for listfunds; when the call was a Failure the two are
\* the same string, the one run_command returned.
C5_BalancesAgree ==
    balancePair # <<>> =>
        /\ \/ isinstance(balancePair[1], "int") /\ isinstance(balancePair[2], "int")
           \/ isinstance(balancePair[1], "str") /\ isinstance(balancePair[2], "str")
        /\ listfundsOutcome \in FailureOutcomes =>
              /\ isinstance(balancePair[1], "str")
              /\ balancePair[1] = balancePair[2]
              /\ balancePair[1] = run_command("listfunds", listfundsOutcome)

\* C5, witness: lightning-cli exited non-zero and get_balances has returned
C5_Witness ==
    /\ listfundsOutcome = Outcome("exit", "connection refused")
    /\ balancePair = <<PyStr("Error executing listfunds: connection refused"),
                    PyStr("Error executing listfunds: connection refused")>>

\* C9: once background_thread_running is false it stays false, a poller
\* whose sleep is over starts no further poll cycle, and both pollers
\* eventually leave their loops.
C9_PollersStop ==
    /\ [][~background_thread_running => ~background_thread_running']_vars
    /\ [][~background_thread_running /\ nodePc = "loop" /\ nodePc' # "loop"
            => nodePc' = "done"]_vars
    /\ [][~background_thread_running /\ walletPc = "loop" /\ walletPc' # "loop"
            => walletPc' = "done"]_vars
    /\ (~background_thread_running) ~> (nodePc = "done" /\ walletPc = "done")

\* C9, witness: the quit command was entered and both pollers have left
\* their loops
C9_Witness ==
    /\ exitCause = "SystemExit"
    /\ ~background_thread_running
    /\ nodePc = "done" /\ walletPc = "done"

\* C10: run() ends only after a quit command or the cancel key, which both
\* set background_thread_running to false; an exception raised while a
\* command is dispatched does not end it.
C10_ExitsOnlyOnShutdown ==
    uiPc = "exited" => exitCause \in {"esc", "SystemExit"} /\ ~background_thread_running

(***************************************************************************)
(* Command dispatch.  The properties below are about the step of run() in  *)
(* which getch returns Enter, and about what the popups do after it.       *)
(***************************************************************************)
\* the step of run() that handles Enter: lines 335-341 and 350-352
EnterStep == uiPc = "getch" /\ uiPc' # "getch" /\ lastKey' = "enter"

\* command.split()[0], or "" for a blank line
FirstToken(line) == IF Split(line) = <<>> THEN "" ELSE JoinChars(Split(line)[1])

\* C11: submitting a line whose first token is quit sets
\* background_thread_running to false, calls lightning-cli for nothing,
\* leaves result_output as it was and ends run(): no step of the main loop
\* follows.
C11_QuitShutsDown ==
    [][ /\ EnterStep /\ FirstToken(current_command) = "quit" =>
            /\ ~background_thread_running'
            /\ dispatchCalls' = <<>>
            /\ result_output' = result_output
            /\ uiPc' = "exited"
            /\ exitCause' = "SystemExit"
        /\ exitCause = "SystemExit" =>
            UNCHANGED <<uiPc, frame, result_output, dispatchCalls, command_history,
                        current_command, balances_changed>> ]_vars

C11_Witness ==
    /\ uiPc = "exited"
    /\ exitCause = "SystemExit"
    /\ lastKey = "enter"
    /\ lastLine = QuitLine \o <<" ", "n", "o", "w">>
    /\ ~background_thread_running
    /\ dispatchCalls = <<>>

\* len(params) of a line
NParams(line) == Len(Split(line)) - 1

\* the line is a structured builtin with fewer parameters than it needs
TooFewParams(line) ==
    \/ FirstToken(line) = "openchannel" /\ NParams(line) < 2
    \/ FirstToken(line) = "closechannel" /\ NParams(line) < 1
    \/ FirstToken(line) = "invoice" /\ NParams(line) < 3

\* the usage text of a structured builtin, after "Error: Usage: "
UsageOf(command_name) ==
    CASE command_name = "openchannel" -> "openchannel <peer_id> <amount> [feerate]"
      [] command_name = "closechannel" -> "closechannel <channel_id> [force]"
      [] command_name = "invoice" -> "invoice <amt> <label> <desc>"

\* C12: a structured builtin with too few parameters (openchannel with fewer
\* than 2, closechannel with fewer than 1, invoice with fewer than 3) calls
\* lightning-cli for nothing and sets result_output to a text that contains
\* "Usage:"; the node's state is unchanged and the main loop goes on.
C12_TooFewParamsIsUsage ==
    [][ EnterStep /\ TooFewParams(current_command) =>
            /\ dispatchCalls' = <<>>
            /\ result_output' =
                   "Error: " \o "Usage:" \o " " \o UsageOf(FirstToken(current_command))
            /\ UNCHANGED <<nodeVars, walletVars>>
            /\ uiPc' = "draw"
            /\ UNCHANGED <<background_thread_running, exitCause>> ]_vars

C12_Witness ==
    /\ lastKey = "enter"
    /\ lastLine = <<"o", "p", "e", "n", "c", "h", "a", "n", "n", "e", "l", " ", "p">>
    /\ uiPc = "draw"
    /\ result_output = "Error: Usage: openchannel <peer_id> <amount> [feerate]"
    /\ dispatchCalls = <<>>
    /\ background_thread_running

\* the line "invoice 100 mylabel a coffee"
InvoiceCoffeeLine ==
    <<"i", "n", "v", "o", "i", "c", "e", " ", "1", "0", "0", " ", "m", "y", "l", "a", "b", "e", "l">>
        \o <<" ", "a", " ", "c", "o", "f", "f", "e", "e">>

\* the line "invoice -1 l a  b": a negative amount, two spaces in the description
InvoiceNegativeLine == <<"i", "n", "v", "o", "i", "c", "e", " ", "-", "1", " ", "l", " ", "a", " ", " ", "b">>

\* C13: an invoice command with an integer amount a, a label l and at least
\* one description token makes exactly one call of lightning-cli: "invoice"
\* with the parameters str(a * 1000), l and the description tokens joined by
\* single spaces; "invoice 100 mylabel a coffee" passes "100000", "mylabel"
\* and "a coffee".
C13_InvoiceCall ==
    [][ /\ ( /\ EnterStep
             /\ FirstToken(current_command) = "invoice"
             /\ NParams(current_command) >= 3
             /\ IsIntLiteral(Split(current_command)[2]) ) =>
            LET parts == Split(current_command) IN
            dispatchCalls' =
                << <<"invoice",
                     << IntToStr(ParseInt(parts[2]) * 1000),
                        JoinChars(parts[3]),
                        JoinWith(" ", Words(SubSeq(parts, 4, Len(parts)))) >> >> >>
        /\ EnterStep /\ current_command = InvoiceCoffeeLine =>
            dispatchCalls' = << <<"invoice", <<"100000", "mylabel", "a coffee">> >> >>
        /\ EnterStep /\ current_command = InvoiceNegativeLine =>
            dispatchCalls' = << <<"invoice", <<"-1000", "l", "a b">> >> >> ]_vars

C13_Witness ==
    /\ lastKey = "enter"
    /\ lastLine = InvoiceCoffeeLine
    /\ dispatchCalls = << <<"invoice", <<"100000", "mylabel", "a coffee">> >> >>
    /\ command_history = <<InvoiceCoffeeLine>>

\* the word is "force" in some mix of upper and lower case
IsForceWord(w) ==
    /\ Len(w) = 5
    /\ w[1] \in {"f", "F"} /\ w[2] \in {"o", "O"} /\ w[3] \in {"r", "R"}
    /\ w[4] \in {"c", "C"} /\ w[5] \in {"e", "E"}

\* the line "closechannel c", and what may follow it
CloseLine == <<"c", "l", "o", "s", "e", "c", "h", "a", "n", "n", "e", "l", " ", "c">>

\* C14: closechannel <id> [tok] makes exactly one call of lightning-cli,
\* "close"; its parameters are [id, "force"] if and only if a second token
\* is there and is "force" in any case, and [id] alone otherwise.
C14_CloseForceIffAsked ==
    [][ /\ ( /\ EnterStep
             /\ FirstToken(current_command) = "closechannel"
             /\ NParams(current_command) >= 1 ) =>
            LET parts == Split(current_command)
                forced == NParams(current_command) >= 2 /\ IsForceWord(parts[3])
            IN /\ Len(dispatchCalls') = 1
               /\ dispatchCalls'[1][1] = "close"
               /\ forced <=> dispatchCalls'[1][2] = <<JoinChars(parts[2]), "force">>
               /\ ~forced <=> dispatchCalls'[1][2] = <<JoinChars(parts[2])>>
        /\ EnterStep /\ current_command = CloseLine \o <<" ", "F", "O", "R", "C", "E">> =>
            dispatchCalls' = << <<"close", <<"c", "force">> >> >>
        /\ EnterStep /\ current_command = CloseLine \o <<" ", "n", "o", "w">> =>
            dispatchCalls' = << <<"close", <<"c">> >> >> ]_vars

C14_Witness ==
    /\ lastKey = "enter"
    /\ lastLine = CloseLine \o <<" ", "F", "O", "R", "C", "E">>
    /\ dispatchCalls = << <<"close", <<"c", "force">> >> >>
    /\ uiPc = "draw"

\* the first tokens execute_command and run() have a branch for
BuiltinNames ==
    {"quit", "help", "openchannel", "closechannel", "invoice", "pay", "fetchinvoice"}

\* the line "listpeers"
ListpeersLine == <<"l", "i", "s", "t", "p", "e", "e", "r", "s">>

\* C15: a submitted line whose first token is not quit, help or a structured
\* builtin makes exactly one call of lightning-cli: the command is the first
\* token and the parameters are the tokens after it, in order and as typed;
\* "listpeers" calls ("listpeers", []).
C15_GenericForwarded ==
    [][ /\ ( /\ EnterStep
             /\ FirstToken(current_command) # ""
             /\ FirstToken(current_command) \notin BuiltinNames ) =>
            LET parts == Split(current_command) IN
            /\ Len(dispatchCalls') = 1
            /\ dispatchCalls'[1][1] = JoinChars(parts[1])
            /\ Len(dispatchCalls'[1][2]) = Len(parts) - 1
            /\ \A i \in 1..(Len(parts) - 1) :
                  dispatchCalls'[1][2][i] = JoinChars(parts[i + 1])
        /\ EnterStep /\ current_command = ListpeersLine =>
            dispatchCalls' = << <<"listpeers", <<>> >> >>
        /\ EnterStep /\ current_command = ListpeersLine \o <<" ", "a", " ", " ", "B">> =>
            dispatchCalls' = << <<"listpeers", <<"a", "B">> >> >> ]_vars

C15_Witness ==
    /\ lastKey = "enter"
    /\ lastLine = ListpeersLine \o <<" ", "a", " ", " ", "B">>
    /\ dispatchCalls = << <<"listpeers", <<"a", "B">> >> >>
    /\ uiPc = "draw"

\* the line "help"
HelpLine == <<"h", "e", "l", "p">>

\* C16: each submission of a line whose trimmed text is exactly "help" flips
\* show_menu: it shows the menu when it was hidden and hides it when it was
\* showing.
C16_HelpToggles ==
    [][ EnterStep /\ Strip(current_command) = HelpLine =>
            show_menu' = ~show_menu ]_vars

\* C17: handling a submitted line whose trimmed text is "help" calls
\* lightning-cli for nothing and changes no field of the node's state
\* (node_active, wallet_active, current_block_height, num_peers, channels);
\* a line with a parameter after help, such as "help foo", is passed on like
\* any generic command.
C17_HelpIsLocal ==
    [][ /\ EnterStep /\ Strip(current_command) = HelpLine =>
            /\ dispatchCalls' = <<>>
            /\ UNCHANGED <<nodeVars, walletVars>>
            /\ UNCHANGED <<command_history, response>>
        /\ EnterStep /\ current_command = HelpLine \o <<" ", "f", "o", "o">> =>
            dispatchCalls' = << <<"help", <<"foo">> >> >> ]_vars

C17_Witness ==
    /\ lastKey = "enter"
    /\ Strip(lastLine) = HelpLine
    /\ lastLine # HelpLine
    /\ show_menu
    /\ dispatchCalls = <<>>
    /\ command_history = <<>>
    /\ uiPc = "draw"

\* the line "pay"
PayLine == <<"p", "a", "y">>

\* C18: command_history only grows at its end, and every submitted
\* non-blank line that is quit, a structured builtin (openchannel,
\* closechannel, invoice, bare pay, fetchinvoice) or a generic command, that
\* is every non-blank line but a bare help, is appended to it exactly once,
\* whatever lightning-cli answers.
C18_HistoryRecordsEveryLine ==
    [][ /\ IsPrefix(command_history, command_history')
        /\ ( /\ EnterStep
             /\ Strip(current_command) # <<>>
             /\ Strip(current_command) # HelpLine ) =>
            command_history' = Append(command_history, current_command)
        /\ ~EnterStep => command_history' = command_history ]_vars

\* C19: submitting an empty line or a line of white space only makes no call
\* of lightning-cli, appends nothing to command_history and leaves
\* result_output as it was.
C19_BlankLineIsNoOp ==
    [][ EnterStep /\ (\A i \in DOMAIN current_command : IsSpace(current_command[i])) =>
            /\ dispatchCalls' = <<>>
            /\ command_history' = command_history
            /\ result_output' = result_output
            /\ uiPc' = "draw" ]_vars

C19_Witness ==
    /\ lastKey = "enter"
    /\ lastLine = <<" ">>
    /\ uiPc = "draw"
    /\ dispatchCalls = <<>>
    /\ command_history = <<>>
    /\ current_command = <<>>

\* C20: when run() has handled the submit of a line whose trimmed text is not
\* exactly "help" (a bare pay, fetchinvoice and the empty line included) and
\* goes on to its next iteration, show_menu is false, balances_changed is
\* true, and current_command is empty with cursor_x 0.
C20_SubmitClearsMenu ==
    [][ ( /\ uiPc' = "draw"
          /\ \/ EnterStep /\ Strip(current_command) # HelpLine
             \/ uiPc \in PopupPcs ) =>
            /\ ~show_menu'
            /\ balances_changed'
            /\ current_command' = <<>>
            /\ cursor_x' = 0 ]_vars

\* C21: in an iteration of the main loop in which balances_changed is false,
\* result_output is empty, current_command is empty and show_menu is as the
\* last redraw found it, draw_interface draws nothing: the frame stays, the
\* funds are not asked for and balances_changed is not written; so too while
\* the menu stays on the screen.
C21_NoChangeNoRedraw ==
    [][ ( /\ uiPc = "draw" /\ uiPc' # "draw"
          /\ ~balances_changed
          /\ result_output = ""
          /\ current_command = <<>>
          /\ show_menu = menuDrawn ) =>
            /\ uiPc' = "getch"
            /\ UNCHANGED <<frame, balances_changed, result_output>> ]_vars

\* the texts draw_balance_panel puts into result_output when listfunds fails
PanelErrorTexts ==
    { "Error: " \o b[1].v \o " " \o b[2].v :
        b \in { get_balances(run_command("listfunds", o)) : o \in FailureOutcomes } }

\* C23: when listfunds fails while the balance panel is drawn, the error text
\* draw_balance_panel puts into result_output is on the screen, in the output
\* pane, by the time result_output is cleared.
C23_PanelErrorDrawn ==
    [][ (result_output' # result_output /\ result_output \in PanelErrorTexts) =>
            frame.output = PyStr(result_output) ]_vars

RECURSIVE ConcatTyped(_)
\* the lines one after the other, as typed
ConcatTyped(lines) ==
    IF lines = <<>> THEN "" ELSE JoinChars(Head(lines)) \o ConcatTyped(Tail(lines))

RECURSIVE ConcatTrimmed(_)
\* the lines one after the other, each without the white space around it
ConcatTrimmed(lines) ==
    IF lines = <<>> THEN ""
    ELSE JoinChars(Strip(Head(lines))) \o ConcatTrimmed(Tail(lines))

\* a step of pay_invoice_popup that takes a line
PayLineStep == uiPc = "pay_popup" /\ enteredLines' # enteredLines

\* the line is empty or white space only
IsBlankLine(line) == \A i \in DOMAIN line : IsSpace(line[i])

\* C24 as stated: the pay popup takes lines until the first blank one, then
\* makes exactly one call ("pay", [s]), s being the lines typed before the
\* blank one, one after the other, when s is not empty, and no call when the
\* first line is blank.
C24_PayCallsTypedLines ==
    [][ PayLineStep =>
          LET line == enteredLines'[Len(enteredLines')]
              s == ConcatTyped(enteredLines)
          IN IF IsBlankLine(line)
             THEN /\ uiPc' = "draw"
                  /\ dispatchCalls' =
                        IF s # "" THEN << <<"pay", <<s>> >> >> ELSE <<>>
             ELSE /\ uiPc' = "pay_popup"
                  /\ dispatchCalls' = <<>> ]_vars

\* C24, amended: the same, s being the lines typed before the blank one, each
\* without the white space around it, one after the other.
C24_PayCallsTrimmedLines ==
    [][ PayLineStep =>
          LET line == enteredLines'[Len(enteredLines')]
              s == ConcatTrimmed(enteredLines)
          IN IF IsBlankLine(line)
             THEN /\ uiPc' = "draw"
                  /\ dispatchCalls' =
                        IF s # "" THEN << <<"pay", <<s>> >> >> ELSE <<>>
             ELSE /\ uiPc' = "pay_popup"
                  /\ dispatchCalls' = <<>> ]_vars

C24_Witness ==
    /\ uiPc = "draw"
    /\ enteredLines = << <<" ", "b", "c", " ">>, <<" ", "b", "c", " ">>, <<" ">> >>
    /\ dispatchCalls = << <<"pay", <<"bcbc">> >> >>
    /\ invoice_lines = <<>>

\* C25: in show_bolt12_popup, after any printable keys, backspaces, left and
\* right keys, 0 <= scroll_offset <= cursor_pos <= len(input_buffer) and
\* cursor_pos - scroll_offset is less than the width of the input line, so
\* the cursor is inside it; the popup calls fetchinvoice only on Enter with
\* an input that is not blank, and not on ESC.
C25_CursorInViewport ==
    /\ [](/\ 0 <= scroll_offset
          /\ scroll_offset <= cursor_pos
          /\ cursor_pos <= Len(input_buffer)
          /\ cursor_pos - scroll_offset < VisibleWidth)
    /\ [][ uiPc = "bolt12_popup" =>
             /\ dispatchCalls' # dispatchCalls =>
                   /\ lastKey' = "enter"
                   /\ Strip(input_buffer) # <<>>
                   /\ dispatchCalls' =
                         << <<"fetchinvoice", <<JoinChars(Strip(input_buffer))>> >> >>
             /\ lastKey' = "esc" =>
                   /\ dispatchCalls' = dispatchCalls
                   /\ uiPc' = "draw" ]_vars

C25_Witness ==
    /\ uiPc = "bolt12_popup"
    /\ lastKey = "left"
    /\ Len(input_buffer) = 3
    /\ cursor_pos = 1
    /\ scroll_offset = 1

\* C22: while a popup (pay, fetchinvoice, or the invoice shown) is open the
\* main frame is not redrawn and balances_changed is not cleared; when a
\* poller sets balances_changed while the popup is open, it is still true
\* when the popup returns to the main loop, and the first iteration after
\* that redraws.
C22_FlagSurvivesDialog ==
    [][ /\ uiPc \in PopupPcs =>
             /\ frame' = frame
             /\ balances_changed => balances_changed'
             /\ uiPc' \notin PopupPcs =>
                   /\ uiPc' = "draw"
                   /\ raisedInDialog => balances_changed'
        /\ (uiPc = "draw" /\ raisedInDialog) =>
             /\ balances_changed'
             /\ uiPc' # "draw" => RedrawBegins ]_vars

C22_Witness ==
    /\ raisedInDialog
    /\ uiPc = "rd_node_active"
    /\ lastLine = FetchLine
    /\ lastKey = "esc"
    /\ balances_changed

====
